---- MODULE Spec2Model ----
(***************************************************************************)
(* Artifact resolution of furiosa-models (furiosa/models/utils.py):        *)
(* ArtifactResolver.read, resolve_file and load_artifacts, run on one      *)
(* asyncio event loop against a file system and an HTTP endpoint.          *)
(*                                                                         *)
(* A coroutine runs atomically from one await to the next, so every action *)
(* of a task is the code between two suspension points.                    *)
(***************************************************************************)
EXTENDS Integers, Sequences, FiniteSets, TLC

\* Number of top-level calls the caller makes, one after the other.
MaxCalls == 2

\* Depth of the deepest directory find_dvc_cache_directory is called in.
MaxDepth == 3

\* The size every sidecar declares, in bytes.
DeclaredSize == 2

(***************************************************************************)
(* Values                                                                  *)
(***************************************************************************)
EXT_CALIB_YAML == "calib_range.yaml"
EXT_ENF == "enf"
EXT_ONNX == "onnx"
GENERATED_EXTENSIONS == {EXT_ENF}

\* Python's Optional[str]: None, or a string.
None == [some |-> FALSE, val |-> ""]
Some(s) == [some |-> TRUE, val |-> s]

\* str(x) as an f-string formats it: None becomes the text "None".
Format(opt) == IF opt.some THEN opt.val ELSE "None"

\* A file: absent, or present with its bytes.
NoFile == [exists |-> FALSE, data |-> <<>>]
File(bytes) == [exists |-> TRUE, data |-> bytes]

\* A descriptor sidecar <path>.dvc: absent, unparsable, or {outs: [{md5, size}]}.
NoSidecar == [exists |-> FALSE, ok |-> FALSE, md5 |-> <<>>, size |-> 0]
BadSidecar == [exists |-> TRUE, ok |-> FALSE, md5 |-> <<>>, size |-> 0]
Sidecar(md5, size) == [exists |-> TRUE, ok |-> TRUE, md5 |-> md5, size |-> size]

\* An HTTP response of the remote endpoint.
Response(status, body) == [status |-> status, body |-> body]

\* What a file system (a function from paths to files) holds at path k.
Lookup(fs, k) == IF k \in DOMAIN fs THEN fs[k] ELSE NoFile
LookupSidecar(fs, k) == IF k \in DOMAIN fs THEN fs[k] ELSE NoSidecar
LookupRemote(fs, k) == IF k \in DOMAIN fs THEN fs[k] ELSE Response(404, <<>>)

\* A path below DATA_DIRECTORY_BASE: its directory components, and its file
\* name as the pieces a "." separates, each piece the strings it is
\* concatenated from ("a_warboy_2pe.enf" is << <<"a", "_warboy_2pe">>, <<"enf">> >>).
NoPath == [dir |-> <<>>, name |-> <<>>]
NoCachePath == [version |-> "", name |-> <<>>]

Names == {"a", "b"}
Exts == {EXT_ONNX, EXT_CALIB_YAML, EXT_ENF}
Tasks == 1 .. 3

VARIABLES
    version,    \* what version_info() returns: Some(tag) or None
    dvcRepo,    \* os.environ.get("DVC_REPO"): Some(text) or None
    dvcRoot,    \* what find_dvc_cache_directory(Path.cwd()) returns: Some(root) or None
    sidecar,    \* descriptor sidecars, by the path they describe
    literal,    \* artifact files below DATA_DIRECTORY_BASE, by path
    store,      \* the local content-addressed store, by <<directory, filename>>
    remote,     \* the remote endpoint's answers, by <<directory, filename>>
    cache,      \* the version-namespaced cache, by [version, name]
    tasks,      \* the resolve_file coroutines of the running call
    gather,     \* the asyncio.gather future of load_artifacts
    caller,     \* the top-level call in progress
    calls,      \* how many top-level calls have been made
    last,       \* the call that returned last, and what it returned
    walk        \* a call of find_dvc_cache_directory: its path, the directories
                \* on disk, and what it returned

env == <<version, dvcRepo, dvcRoot, sidecar, literal, store, remote, walk>>
vars == <<version, dvcRepo, dvcRoot, sidecar, literal, store, remote, cache, tasks, gather, caller, calls, last, walk>>

(***************************************************************************)
(* The pure parts of utils.py                                              *)
(***************************************************************************)
\* version_info(): the tag of the native library, or None without one.
version_info == version

\* f"{file_path}.dvc": the sidecar's path.
DvcPath(file_path) == [file_path EXCEPT !.name = Append(@, <<"dvc">>)]

\* Path.with_suffix(''): the path without its last suffix.
WithoutSuffix(path) ==
    IF Len(path.name) > 1
    THEN [path EXCEPT !.name = SubSeq(@, 1, Len(@) - 1)]
    ELSE path

\* Drop2 with the file named by the whole hash.
Drop2Whole(md5) == md5

\* md5sum[:2] and md5sum[2:], as Python slices a string of any length.
Take2(md5) == SubSeq(md5, 1, IF Len(md5) < 2 THEN Len(md5) ELSE 2)
Drop2(md5) == SubSeq(md5, 3, Len(md5))

\* parse_dvc_file: open() of a missing sidecar raises FileNotFoundError, a
\* document without outs[0].md5 and .size raises KeyError.
parse_dvc_file(file_path) ==
    LET info_dict == LookupSidecar(sidecar, DvcPath(file_path))
    IN  IF ~info_dict.exists
        THEN [exc |-> "FileNotFoundError", directory |-> <<>>, filename |-> <<>>, size |-> 0]
        ELSE IF ~info_dict.ok
        THEN [exc |-> "KeyError", directory |-> <<>>, filename |-> <<>>, size |-> 0]
        ELSE [exc |-> "", directory |-> Take2(info_dict.md5),
              filename |-> Drop2(info_dict.md5), size |-> info_dict.size]

\* get_url: the object's address below the public endpoint.
get_url(directory, filename) == <<directory, filename>>

\* CACHE_DIRECTORY_BASE / version_info() / self.uri.name; Path / None raises
\* TypeError.
local_cache_path(uri) ==
    IF version_info.some
    THEN [exc |-> "", path |-> [version |-> version_info.val, name |-> uri.name]]
    ELSE [exc |-> "TypeError", path |-> NoCachePath]

\* caching_path with the entry named by the stem of the file name.
caching_path_stem(uri) ==
    IF version_info.some
    THEN [exc |-> "",
          path |-> [version |-> version_info.val,
                    name |-> SubSeq(uri.name, 1, Len(uri.name) - 1)]]
    ELSE [exc |-> "TypeError", path |-> NoCachePath]

\* The same expression where read writes the entry back.
caching_path(uri) ==
    IF version_info.some
    THEN [exc |-> "", path |-> [version |-> version_info.val, name |-> uri.name]]
    ELSE [exc |-> "TypeError", path |-> NoCachePath]

\* self.dvc_cache_path / directory / filename
StorePath(dvc_cache_path, directory, filename) ==
    [root |-> dvc_cache_path.val, directory |-> directory, filename |-> filename]

\* ArtifactResolver.__init__: DVC_REPO, when set, is a str, and str has no
\* is_symlink, so the constructor raises AttributeError.
ArtifactResolver(uri) ==
    LET dvc_cache_path == IF dvcRepo.some THEN dvcRepo ELSE dvcRoot
    IN  IF dvcRepo.some
        THEN [exc |-> "AttributeError", uri |-> uri, dvc_cache_path |-> None]
        ELSE [exc |-> "", uri |-> uri, dvc_cache_path |-> dvc_cache_path]

\* (DATA_DIRECTORY_BASE / src_name).glob(f'*.{extension}.dvc')
Glob(src_name, extension) ==
    { p \in DOMAIN sidecar :
        /\ sidecar[p].exists
        /\ p.dir = <<src_name>>
        /\ Len(p.name) >= 3
        /\ p.name[Len(p.name)] = <<"dvc">>
        /\ p.name[Len(p.name) - 1] = <<extension>> }

\* generated_path_base = f"generated/{version_info()}": always a str.
generated_path_base == Some(<<"generated", Format(version_info)>>)

\* resolve_file, lines 160-169: the paths full_path may become, or the
\* exception that leaves resolve_file before its try block.
FullPaths(src_name, extension, generated_suffix) ==
    IF extension \in GENERATED_EXTENSIONS
    THEN IF ~generated_path_base.some
         THEN {[exc |-> "VersionInfoNotFound", path |-> NoPath]}
         ELSE {[exc |-> "",
                path |-> [dir |-> generated_path_base.val,
                          name |-> << <<src_name, generated_suffix>>, <<extension>> >>]]}
    ELSE IF Glob(src_name, extension) = {}
         \* next() of an empty iterator: StopIteration, which leaves the
         \* coroutine as RuntimeError("coroutine raised StopIteration")
         THEN {[exc |-> "RuntimeError", path |-> NoPath]}
         ELSE {[exc |-> "", path |-> WithoutSuffix(p)] : p \in Glob(src_name, extension)}

(***************************************************************************)
(* Tasks: one resolve_file coroutine each                                  *)
(***************************************************************************)
Idle ==
    [pc |-> "idle", src_name |-> "", extension |-> "", uri |-> NoPath,
     dvc_cache_path |-> None, cpath |-> NoCachePath,
     directory |-> <<>>, filename |-> <<>>, size |-> 0, data |-> <<>>,
     ok |-> FALSE, ret |-> <<>>, exc |-> "", readExc |-> "", ev |-> <<>>]

Fresh(src_name, extension) ==
    [Idle EXCEPT !.pc = "begin", !.src_name = src_name, !.extension = extension]

Running(tk) == tk.pc \notin {"idle", "done", "cancelled"}

\* resolve_file, lines 171-174: whatever ArtifactResolver(...).read() raises
\* is replaced by errors.ArtifactNotFound.
Wrap(e) == "ArtifactNotFound"

\* RaiseInRead with one more try after a refusal of the remote.
RaiseInReadRetry(tk, e) ==
    IF e = "NotFoundInDVCRemote"
       /\ Cardinality({i \in DOMAIN tk.ev : tk.ev[i] = "get"}) < 2
    THEN [tk EXCEPT !.pc = "remote_get"]
    ELSE [tk EXCEPT !.pc = "done", !.ok = FALSE, !.readExc = e, !.exc = Wrap(e)]

\* An exception e inside the try block ends the coroutine.
RaiseInRead(tk, e) ==
    [tk EXCEPT !.pc = "done", !.ok = FALSE, !.readExc = e, !.exc = Wrap(e)]

\* An exception outside the try block leaves resolve_file as it is.
RaiseRaw(tk, e) == [tk EXCEPT !.pc = "done", !.ok = FALSE, !.exc = e]

\* read returns data, and resolve_file returns it.
Return(tk, data) == [tk EXCEPT !.pc = "done", !.ok = TRUE, !.ret = data]

\* CacheHit with the first tier left out.
CacheHitNever(path) == FALSE

\* local_cache_path.exists()
CacheHit(path) == Lookup(cache, path).exists

\* Path(self.uri).exists()
LiteralHit(uri) == Lookup(literal, uri).exists

\* StoreHit without the look at the file: a configured root is a hit.
StoreHitRootOnly(dvc_cache_path, directory, filename) == dvc_cache_path.some

\* self.dvc_cache_path is not None, and cached.exists()
StoreHit(dvc_cache_path, directory, filename) ==
    /\ dvc_cache_path.some
    /\ Lookup(store, StorePath(dvc_cache_path, directory, filename)).exists

\* assert len(data) == size, line 134
StoreSizeOk(data, size) == Len(data) = size

\* StatusOk that takes every status below 400 for a success.
StatusOkBelow400(status) == status < 400

\* resp.status != 200 raises, line 144
StatusOk(status) == status = 200

\* RemoteSizeOk with the assertion compiled away.
RemoteSizeOkAlways(data, size) == TRUE

\* RemoteSizeOk that lets a short body through.
RemoteSizeOkAtMost(data, size) == Len(data) <= size

\* assert len(data) == size, line 147
RemoteSizeOk(data, size) == Len(data) = size

\* ReadBegin with the literal path looked at before the cache.
ReadBeginLiteralFirst(tk, self) ==
    LET lcp == local_cache_path(self.uri)
        here == [tk EXCEPT !.uri = self.uri, !.dvc_cache_path = self.dvc_cache_path]
    IN  IF lcp.exc # ""
        THEN RaiseInRead(here, lcp.exc)
        ELSE IF LiteralHit(self.uri)
        THEN [here EXCEPT !.pc = "literal_read", !.cpath = lcp.path,
                          !.ev = <<"literal_check">>]
        ELSE IF CacheHit(lcp.path)
        THEN [here EXCEPT !.pc = "cache_read", !.cpath = lcp.path,
                          !.ev = <<"literal_check", "cache_lookup">>]
        ELSE LET d == parse_dvc_file(self.uri)
                 parsed == [here EXCEPT !.cpath = lcp.path, !.directory = d.directory,
                                        !.filename = d.filename, !.size = d.size,
                                        !.ev = <<"literal_check", "cache_lookup", "parse">>]
             IN  IF d.exc # ""
                 THEN RaiseInRead(parsed, d.exc)
                 ELSE IF self.dvc_cache_path = None
                 THEN [parsed EXCEPT !.pc = "remote_get"]
                 ELSE IF StoreHit(self.dvc_cache_path, d.directory, d.filename)
                 THEN [parsed EXCEPT !.pc = "store_read",
                                     !.ev = Append(@, "store_lookup")]
                 ELSE [parsed EXCEPT !.pc = "remote_get",
                                     !.ev = Append(@, "store_lookup")]

\* ArtifactResolver.read from its first line to its first await: the tiers
\* are tried in order, and the first that hits is the file to open.
ReadBegin(tk, self) ==
    LET lcp == local_cache_path(self.uri)
        here == [tk EXCEPT !.uri = self.uri, !.dvc_cache_path = self.dvc_cache_path]
    IN  IF lcp.exc # ""
        THEN RaiseInRead(here, lcp.exc)
        ELSE IF CacheHit(lcp.path)
        THEN [here EXCEPT !.pc = "cache_read", !.cpath = lcp.path,
                          !.ev = <<"cache_lookup">>]
        ELSE IF LiteralHit(self.uri)
        THEN [here EXCEPT !.pc = "literal_read", !.cpath = lcp.path,
                          !.ev = <<"cache_lookup", "literal_check">>]
        ELSE LET d == parse_dvc_file(self.uri)
                 parsed == [here EXCEPT !.cpath = lcp.path, !.directory = d.directory,
                                        !.filename = d.filename, !.size = d.size,
                                        !.ev = <<"cache_lookup", "literal_check", "parse">>]
             IN  IF d.exc # ""
                 THEN RaiseInRead(parsed, d.exc)
                 ELSE IF self.dvc_cache_path = None
                 THEN [parsed EXCEPT !.pc = "remote_get"]
                 ELSE IF StoreHit(self.dvc_cache_path, d.directory, d.filename)
                 THEN [parsed EXCEPT !.pc = "store_read",
                                     !.ev = Append(@, "store_lookup")]
                 ELSE [parsed EXCEPT !.pc = "remote_get",
                                     !.ev = Append(@, "store_lookup")]

\* resolve_file from its first line to the first await of read.
ResolveFileBegin(tk) ==
    { IF fp.exc # ""
      THEN RaiseRaw(tk, fp.exc)
      ELSE LET self == ArtifactResolver(fp.path)
           IN  IF self.exc # ""
               THEN RaiseInRead([tk EXCEPT !.uri = fp.path], self.exc)
               ELSE ReadBegin(tk, self)
      : fp \in FullPaths(tk.src_name, tk.extension, "_warboy_2pe") }

(***************************************************************************)
(* asyncio.gather of the resolvers, return_exceptions left False           *)
(***************************************************************************)
NoGather == [state |-> "none", exc |-> "", order |-> <<>>]
NewGather == [state |-> "pending", exc |-> "", order |-> <<>>]

\* GatherSettle as return_exceptions=True would have it: an exception is a
\* result like any other.
GatherSettleKeepGoing(g, t, tk) ==
    IF g.state # "pending"
    THEN g
    ELSE IF Len(g.order) + 1 = Cardinality(Tasks)
    THEN [state |-> "ok", exc |-> "", order |-> Append(g.order, t)]
    ELSE [g EXCEPT !.order = Append(@, t)]

\* The done callback of child t: the first exception settles the future at
\* once, and the last result settles it when every child has one.
GatherSettle(g, t, tk) ==
    IF g.state # "pending"
    THEN g
    ELSE IF ~tk.ok
    THEN [state |-> "failed", exc |-> tk.exc, order |-> Append(g.order, t)]
    ELSE IF Len(g.order) + 1 = Cardinality(Tasks)
    THEN [state |-> "ok", exc |-> "", order |-> Append(g.order, t)]
    ELSE [g EXCEPT !.order = Append(@, t)]

\* GatherResults in the order the children finished.
GatherResultsAsCompleted(ts) == [i \in Tasks |-> ts[gather.order[i]].ret]

\* The results of gather: one per awaitable, in the order they were passed.
GatherResults(ts) == [i \in Tasks |-> ts[i].ret]

\* exts of load_artifacts
exts == <<EXT_ONNX, EXT_CALIB_YAML, EXT_ENF>>

\* {ext: binary for ext, binary in zip(exts, results)}
ZipDict(keys, values) ==
    [k \in {keys[i] : i \in DOMAIN keys} |->
        values[CHOOSE i \in DOMAIN keys :
                  keys[i] = k /\ \A j \in DOMAIN keys : keys[j] = k => j <= i]]

\* A task takes a step; a step that ends it runs its done callback.
Settle(t, tk) ==
    /\ tasks' = [tasks EXCEPT ![t] = tk]
    /\ gather' = IF tk.pc = "done" THEN GatherSettle(gather, t, tk) ELSE gather

(***************************************************************************)
(* The steps of ArtifactResolver.read, one per await                       *)
(***************************************************************************)
\* Tasks created by one gather start in the order they were passed.
Begin(t) ==
    /\ tasks[t].pc = "begin"
    /\ \A u \in Tasks : u < t => tasks[u].pc # "begin"
    /\ \E tk \in ResolveFileBegin(tasks[t]) : Settle(t, tk)
    /\ UNCHANGED <<env, cache, caller, calls, last>>

\* lines 117-118: open the cache entry and return what it holds.
CacheRead(t) ==
    /\ tasks[t].pc = "cache_read"
    /\ LET tk == [tasks[t] EXCEPT !.ev = Append(@, "cache_read")]
           f == Lookup(cache, tk.cpath)
       IN  Settle(t, IF f.exists THEN Return(tk, f.data)
                     ELSE RaiseInRead(tk, "FileNotFoundError"))
    /\ UNCHANGED <<env, cache, caller, calls, last>>

\* lines 123-124: open the file at the literal path and return what it holds.
LiteralRead(t) ==
    /\ tasks[t].pc = "literal_read"
    /\ LET tk == [tasks[t] EXCEPT !.ev = Append(@, "literal_read")]
           f == Lookup(literal, tk.uri)
       IN  Settle(t, IF f.exists THEN Return(tk, f.data)
                     ELSE RaiseInRead(tk, "FileNotFoundError"))
    /\ UNCHANGED <<env, cache, caller, calls, last>>

\* lines 132-135: read the object of the local store and check its size.
StoreRead(t) ==
    /\ tasks[t].pc = "store_read"
    /\ LET tk == [tasks[t] EXCEPT !.ev = Append(@, "store_read")]
           f == Lookup(store, StorePath(tk.dvc_cache_path, tk.directory, tk.filename))
       IN  Settle(t, IF ~f.exists THEN RaiseInRead(tk, "FileNotFoundError")
                     ELSE IF ~StoreSizeOk(f.data, tk.size)
                     THEN RaiseInRead(tk, "AssertionError")
                     ELSE Return([tk EXCEPT !.data = f.data], f.data))
    /\ UNCHANGED <<env, cache, caller, calls, last>>

\* lines 140-145: GET the object's URL and look at the status.
RemoteGet(t) ==
    /\ tasks[t].pc = "remote_get"
    /\ LET tk == [tasks[t] EXCEPT !.ev = Append(@, "get")]
           resp == LookupRemote(remote, get_url(tk.directory, tk.filename))
       IN  Settle(t, IF ~StatusOk(resp.status)
                     THEN RaiseInRead(tk, "NotFoundInDVCRemote")
                     ELSE [tk EXCEPT !.pc = "remote_read"])
    /\ UNCHANGED <<env, cache, caller, calls, last>>

\* lines 146-150: read the body, check its size, name the cache entry.
RemoteRead(t) ==
    /\ tasks[t].pc = "remote_read"
    /\ LET tk == [tasks[t] EXCEPT !.ev = Append(@, "body")]
           resp == LookupRemote(remote, get_url(tk.directory, tk.filename))
           cp == caching_path(tk.uri)
       IN  Settle(t, IF ~RemoteSizeOk(resp.body, tk.size)
                     THEN RaiseInRead(tk, "AssertionError")
                     ELSE IF cp.exc # ""
                     THEN RaiseInRead([tk EXCEPT !.data = resp.body], cp.exc)
                     ELSE [tk EXCEPT !.pc = "cache_open", !.data = resp.body,
                                     !.cpath = cp.path])
    /\ UNCHANGED <<env, cache, caller, calls, last>>

\* line 151: open(caching_path, "wb") creates the entry, or empties it.
CacheOpen(t) ==
    /\ tasks[t].pc = "cache_open"
    /\ cache' = (tasks[t].cpath :> File(<<>>)) @@ cache
    /\ Settle(t, [tasks[t] EXCEPT !.pc = "cache_write", !.ev = Append(@, "cache_open")])
    /\ UNCHANGED <<env, caller, calls, last>>

\* lines 152-153: write the body to the entry, close it and return the body.
CacheWrite(t) ==
    /\ tasks[t].pc = "cache_write"
    /\ cache' = (tasks[t].cpath :> File(tasks[t].data)) @@ cache
    /\ Settle(t, Return([tasks[t] EXCEPT !.ev = Append(@, "cache_write")], tasks[t].data))
    /\ UNCHANGED <<env, caller, calls, last>>

(***************************************************************************)
(* The caller: resolve_file or load_artifacts, one call after the other    *)
(***************************************************************************)
NoCaller == [pc |-> "idle", src_name |-> "", cold |-> FALSE]

\* No entry exists in the version-namespaced cache.
CacheEmpty == \A p \in DOMAIN cache : ~cache[p].exists

Returned(kind, src_name, cold, ok, exc, bundle, task) ==
    [kind |-> kind, src_name |-> src_name, cold |-> cold, ok |-> ok, exc |-> exc,
     bundle |-> bundle, task |-> task]

NoBundle == [e \in {} |-> <<>>]
NoCall == Returned("none", "", FALSE, FALSE, "", NoBundle, Idle)

CanCall ==
    /\ caller.pc = "idle"
    /\ calls < MaxCalls
    /\ \A t \in Tasks : ~Running(tasks[t])

\* await resolve_file(src_name, extension)
CallResolveFile(src_name, extension) ==
    /\ CanCall
    /\ tasks' = [t \in Tasks |-> IF t = 1 THEN Fresh(src_name, extension) ELSE Idle]
    /\ gather' = NoGather
    /\ caller' = [pc |-> "single", src_name |-> src_name, cold |-> CacheEmpty]
    /\ calls' = calls + 1
    /\ UNCHANGED <<env, cache, last>>

\* resolve_file returns to its caller, or raises.
ReturnResolveFile ==
    /\ caller.pc = "single"
    /\ tasks[1].pc = "done"
    /\ last' = Returned("single", caller.src_name, caller.cold,
                         tasks[1].ok, tasks[1].exc, NoBundle, tasks[1])
    /\ caller' = NoCaller
    /\ tasks' = [t \in Tasks |-> Idle]
    /\ UNCHANGED <<env, cache, gather, calls>>

\* load_artifacts, lines 178-180 up to the await: one resolve_file per
\* extension, all passed to gather.
CallLoadArtifacts(name) ==
    /\ CanCall
    /\ tasks' = [t \in Tasks |-> Fresh(name, exts[t])]
    /\ gather' = NewGather
    /\ caller' = [pc |-> "batch", src_name |-> name, cold |-> CacheEmpty]
    /\ calls' = calls + 1
    /\ UNCHANGED <<env, cache, last>>

\* load_artifacts resumes when the gather future is settled: it raises the
\* future's exception, or returns the dictionary.
ReturnLoadArtifacts ==
    /\ caller.pc = "batch"
    /\ gather.state \in {"ok", "failed"}
    /\ last' = IF gather.state = "ok"
                THEN Returned("batch", caller.src_name, caller.cold, TRUE, "",
                              ZipDict(exts, GatherResults(tasks)), Idle)
                ELSE Returned("batch", caller.src_name, caller.cold, FALSE,
                              gather.exc, NoBundle, Idle)
    /\ caller' = NoCaller
    /\ UNCHANGED <<env, cache, tasks, gather, calls>>

\* The event loop ends after a failed load_artifacts: the children gather
\* left running are cancelled at their await.
LoopShutdown ==
    /\ caller.pc = "idle"
    /\ \E t \in Tasks : Running(tasks[t])
    /\ tasks' = [t \in Tasks |->
                    IF Running(tasks[t]) THEN [tasks[t] EXCEPT !.pc = "cancelled"]
                    ELSE tasks[t]]
    /\ UNCHANGED <<env, cache, gather, caller, calls, last>>

\* Two resolve_file coroutines for one reference run on one event loop, as
\* when two load_artifacts calls for one name are under way together; the
\* second may take its first step while the first is at any await.
CallResolveTwice(src_name, extension) ==
    /\ CanCall
    /\ tasks' = [t \in Tasks |-> IF t \in {1, 2} THEN Fresh(src_name, extension) ELSE Idle]
    /\ gather' = NoGather
    /\ caller' = [pc |-> "pair", src_name |-> src_name, cold |-> CacheEmpty]
    /\ calls' = calls + 1
    /\ UNCHANGED <<env, cache, last>>

\* Both coroutines have returned or raised.
ReturnTwice ==
    /\ caller.pc = "pair"
    /\ \A t \in Tasks : ~Running(tasks[t])
    /\ last' = Returned("pair", caller.src_name, caller.cold,
                         tasks[1].ok /\ tasks[2].ok, "", NoBundle, tasks[1])
    /\ caller' = NoCaller
    /\ UNCHANGED <<env, cache, tasks, gather, calls>>

(***************************************************************************)
(* find_dvc_cache_directory                                                *)
(*                                                                         *)
(* A path is the sequence of its parts below the filesystem root, which is *)
(* the empty sequence; the disk is the set of the directories on it.       *)
(***************************************************************************)
NoDir == [some |-> FALSE, parts |-> <<>>]
Dir(parts) == [some |-> TRUE, parts |-> parts]

\* path.parent: the root is its own parent.
parent(path) ==
    Dir(IF path.parts = <<>> THEN <<>> ELSE SubSeq(path.parts, 1, Len(path.parts) - 1))

\* path / name
Join(path, name) == Dir(Append(path.parts, name))

\* path.is_dir()
is_dir(dirs, path) == path.parts \in dirs

\* lines 93-98: None at the root, the cache below the marker where there is
\* one, and the parent otherwise.
RECURSIVE find_dvc_cache_directory(_, _)
find_dvc_cache_directory(dirs, path) ==
    IF ~path.some \/ path = parent(path)
    THEN NoDir
    ELSE IF is_dir(dirs, Join(path, ".dvc"))
    THEN Join(Join(path, ".dvc"), "cache")
    ELSE find_dvc_cache_directory(dirs, parent(path))

NoWalk == [pc |-> "idle", path |-> NoDir, dirs |-> {}, result |-> NoDir]

\* find_dvc_cache_directory is called with a path, and returns.
FindDvcCacheDirectory ==
    /\ walk.pc = "called"
    /\ walk' = [walk EXCEPT !.pc = "returned",
                            !.result = find_dvc_cache_directory(walk.dirs, walk.path)]
    /\ UNCHANGED <<version, dvcRepo, dvcRoot, sidecar, literal, store, remote,
                   cache, tasks, gather, caller, calls, last>>

(***************************************************************************)
(* The states a run starts from                                            *)
(*                                                                         *)
(* Four artifacts are on hand: a/m.onnx, b/m.onnx, a/m.calib_range.yaml    *)
(* and the generated a_warboy_2pe.enf.  Each is in a situation: whether    *)
(* the file itself is in place, what its sidecar is, what the local store  *)
(* holds under its hash, and what the remote endpoint answers.  Every      *)
(* sidecar declares DeclaredSize bytes; each place holds its own bytes, so *)
(* that the bytes a resolution returns tell where they came from.          *)
(***************************************************************************)
Artifacts == 1 .. 4

PathAt(i, v) ==
    CASE i = 1 -> [dir |-> <<"a">>, name |-> << <<"m">>, <<EXT_ONNX>> >>]
      [] i = 2 -> [dir |-> <<"b">>, name |-> << <<"m">>, <<EXT_ONNX>> >>]
      [] i = 3 -> [dir |-> <<"a">>, name |-> << <<"m">>, <<EXT_CALIB_YAML>> >>]
      [] i = 4 -> [dir |-> <<"generated", Format(v)>>,
                   name |-> << <<"a", "_warboy_2pe">>, <<EXT_ENF>> >>]

HashAt(i) ==
    CASE i = 1 -> <<"a", "b", "1", "2">>
      [] i = 2 -> <<"a", "b", "3", "4">>
      [] i = 3 -> <<"c", "d", "1", "2">>
      [] i = 4 -> <<"c", "d", "3", "4">>

\* DeclaredSize bytes that name the place they lie in and the artifact.
BytesOf(place, i) == [k \in 1 .. DeclaredSize |-> IF k = 1 THEN place ELSE i]

\* An old cache entry is longer than the sidecar declares, and so is a
\* damaged object of the store; a damaged remote body is shorter.
OldBytes(i) == Append(BytesOf(1, i), i)
LiteralBytes(i) == BytesOf(2, i)
StoreBytes(i, st) == IF st = "good" THEN BytesOf(3, i) ELSE Append(BytesOf(3, i), 0)
RemoteBytes(i) == BytesOf(4, i)
RemoteAnswer(i, rm) ==
    CASE rm = "good" -> Response(200, RemoteBytes(i))
      [] rm = "bad" -> Response(200, SubSeq(RemoteBytes(i), 1, DeclaredSize - 1))
      [] rm = "204" -> Response(204, <<>>)
      [] rm = "404" -> Response(404, <<>>)

Sit(lit, sc, st, rm) == [lit |-> lit, sc |-> sc, st |-> st, rm |-> rm]
LiteralThere == Sit(TRUE, "ok", "none", "404")
NoSidecarThere == Sit(FALSE, "none", "none", "404")
StoreGood == Sit(FALSE, "ok", "good", "404")
StoreBad == Sit(FALSE, "ok", "bad", "good")
RemoteGood == Sit(FALSE, "ok", "none", "good")
RemoteBad == Sit(FALSE, "ok", "none", "bad")
RemoteMissing == Sit(FALSE, "ok", "none", "404")

\* Every situation of one artifact; what nothing can read is left out (the
\* store and the remote of an artifact whose sidecar does not parse).
Situations ==
    {Sit(lit, sc, "none", "404") : lit \in BOOLEAN, sc \in {"none", "bad"}}
    \cup {Sit(lit, "ok", st, rm) : lit \in BOOLEAN, st \in {"none", "good", "bad"},
                                   rm \in {"404", "204", "good", "bad"}}

StoreKeyAt(i, root) ==
    [root |-> root, directory |-> <<HashAt(i)[1], HashAt(i)[2]>>,
     filename |-> <<HashAt(i)[3], HashAt(i)[4]>>]
RemoteKeyAt(i) == << <<HashAt(i)[1], HashAt(i)[2]>>, <<HashAt(i)[3], HashAt(i)[4]>> >>

EnvIs(v, repo, root, old, sit) ==
    /\ version = v
    /\ dvcRepo = repo
    /\ dvcRoot = root
    /\ literal = [p \in {PathAt(i, v) : i \in {j \in Artifacts : sit[j].lit}} |->
                     File(LiteralBytes(CHOOSE i \in Artifacts : PathAt(i, v) = p))]
    /\ sidecar = [p \in {DvcPath(PathAt(i, v)) : i \in {j \in Artifacts : sit[j].sc # "none"}} |->
                     LET i == CHOOSE i \in Artifacts : DvcPath(PathAt(i, v)) = p
                     IN  IF sit[i].sc = "ok" THEN Sidecar(HashAt(i), DeclaredSize)
                         ELSE BadSidecar]
    /\ store = [k \in {StoreKeyAt(i, "cache") : i \in {j \in Artifacts : sit[j].st # "none"}} |->
                   LET i == CHOOSE i \in Artifacts : StoreKeyAt(i, "cache") = k
                   IN  File(StoreBytes(i, sit[i].st))]
    /\ remote = [k \in {RemoteKeyAt(i) : i \in Artifacts} |->
                    LET i == CHOOSE i \in Artifacts : RemoteKeyAt(i) = k
                    IN  RemoteAnswer(i, sit[i].rm)]
    /\ cache = [p \in {[version |-> "v1", name |-> PathAt(i, v).name] : i \in old} |->
                   File(OldBytes(CHOOSE i \in old : PathAt(i, v).name = p.name))]
    /\ tasks = [t \in Tasks |-> Idle]
    /\ gather = NoGather
    /\ caller = NoCaller
    /\ calls = 0
    /\ last = NoCall

\* One artifact in every situation, with and without an entry in the cache
\* and a local store; the others where a resolution finds them at once.
InitDeep ==
    \E s \in Situations, root \in {None, Some("cache")}, old \in {{}, {1}} :
        /\ root = None => s.st = "none"
        /\ EnvIs(Some("v1"), None, root, old, <<s, RemoteGood, LiteralThere, LiteralThere>>)

\* The three artifacts of one load_artifacts call, each in a few situations.
InitWide ==
    \E s1 \in {StoreGood, RemoteGood, RemoteMissing},
       s3 \in {LiteralThere, RemoteGood, RemoteBad, NoSidecarThere},
       s4 \in {LiteralThere, StoreBad, RemoteGood, RemoteMissing},
       old \in {{}, {4}} :
        EnvIs(Some("v1"), None, Some("cache"), old, <<s1, RemoteGood, s3, s4>>)

\* No native library, so no version tag.
InitNoVersion ==
    \E s \in {LiteralThere, StoreGood, RemoteGood, NoSidecarThere} :
        EnvIs(None, None, Some("cache"), {}, <<s, RemoteGood, LiteralThere, LiteralThere>>)

\* DVC_REPO is set.
InitDvcRepo ==
    \E s \in {LiteralThere, StoreGood} :
        EnvIs(Some("v1"), Some("cache"), None, {}, <<s, RemoteGood, LiteralThere, LiteralThere>>)

Init == (InitDeep \/ InitWide \/ InitNoVersion \/ InitDvcRepo) /\ walk = NoWalk

Next ==
    \/ \E n \in Names, e \in Exts : CallResolveFile(n, e)
    \/ ReturnResolveFile
    \/ \E n \in Names : CallLoadArtifacts(n)
    \/ ReturnLoadArtifacts
    \/ LoopShutdown
    \/ \E t \in Tasks : Begin(t)
    \/ \E t \in Tasks : CacheRead(t)
    \/ \E t \in Tasks : LiteralRead(t)
    \/ \E t \in Tasks : StoreRead(t)
    \/ \E t \in Tasks : RemoteGet(t)
    \/ \E t \in Tasks : RemoteRead(t)
    \/ \E t \in Tasks : CacheOpen(t)
    \/ \E t \in Tasks : CacheWrite(t)

Spec == Init /\ [][Next]_vars

(***************************************************************************)
(* One reference resolved by two coroutines at once, from an empty cache   *)
(***************************************************************************)
InitRace ==
    /\ \E s \in {LiteralThere, StoreGood, RemoteGood, RemoteBad, RemoteMissing} :
           EnvIs(Some("v1"), None, Some("cache"), {}, <<s, RemoteGood, RemoteGood, LiteralThere>>)
    /\ walk = NoWalk

NextRace ==
    \/ \E n \in Names, e \in Exts : CallResolveTwice(n, e)
    \/ ReturnTwice
    \/ \E t \in Tasks : Begin(t)
    \/ \E t \in Tasks : CacheRead(t)
    \/ \E t \in Tasks : LiteralRead(t)
    \/ \E t \in Tasks : StoreRead(t)
    \/ \E t \in Tasks : RemoteGet(t)
    \/ \E t \in Tasks : RemoteRead(t)
    \/ \E t \in Tasks : CacheOpen(t)
    \/ \E t \in Tasks : CacheWrite(t)

SpecRace == InitRace /\ [][NextRace]_vars

(***************************************************************************)
(* find_dvc_cache_directory called in every directory of a small tree,     *)
(* with a marker directory in any of the directories from there to the     *)
(* root                                                                    *)
(***************************************************************************)
PartNames == {"x", "y"}

RECURSIVE PathsOfLen(_)
PathsOfLen(n) ==
    IF n = 0 THEN {<<>>}
    ELSE {Append(p, c) : p \in PathsOfLen(n - 1), c \in PartNames}

Paths == UNION {PathsOfLen(n) : n \in 0 .. MaxDepth}

\* parts and the directories above it, the root included.
UpTo(parts) == {SubSeq(parts, 1, n) : n \in 0 .. Len(parts)}

InitWalk ==
    /\ EnvIs(Some("v1"), None, None, {},
             <<LiteralThere, LiteralThere, LiteralThere, LiteralThere>>)
    /\ \E parts \in Paths : \E marked \in SUBSET UpTo(parts) :
           walk = [pc |-> "called", path |-> Dir(parts),
                   dirs |-> Paths \cup {Append(d, ".dvc") : d \in marked},
                   result |-> NoDir]

NextWalk == FindDvcCacheDirectory

SpecWalk == InitWalk /\ [][NextWalk]_vars

(***************************************************************************)
(* Properties                                                              *)
(***************************************************************************)
Has(ev, x) == \E i \in DOMAIN ev : ev[i] = x
Done(t) == tasks[t].pc = "done"

\* The places a reference names, read off the environment.
EntryPathOf(uri) == [version |-> Format(version), name |-> uri.name]
EntryOf(uri) == Lookup(cache, EntryPathOf(uri))
SidecarOf(uri) == LookupSidecar(sidecar, [dir |-> uri.dir, name |-> uri.name \o << <<"dvc">> >>])
HashDir(uri) ==
    LET md5 == SidecarOf(uri).md5
    IN  IF Len(md5) >= 2 THEN <<md5[1], md5[2]>> ELSE md5
HashFile(uri) ==
    LET md5 == SidecarOf(uri).md5
    IN  IF Len(md5) >= 2 THEN Tail(Tail(md5)) ELSE <<>>
ObjectOf(uri) ==
    Lookup(store, [root |-> dvcRoot.val, directory |-> HashDir(uri), filename |-> HashFile(uri)])
AnswerOf(uri) == LookupRemote(remote, <<HashDir(uri), HashFile(uri)>>)

\* The second of two resolve_file calls for one artifact has finished, and
\* the first started with an empty cache and returned bytes.
SecondRunDone ==
    /\ caller.pc = "single"
    /\ Done(1)
    /\ last.kind = "single"
    /\ last.cold
    /\ last.ok
    /\ last.task.src_name = tasks[1].src_name
    /\ last.task.extension = tasks[1].extension

\* C1: when an artifact is resolved twice in a row, the first time with the
\* version-namespaced cache empty, and the first resolution returns bytes,
\* the second returns the same bytes and makes no remote GET; after a first
\* resolution that fetched, the second is the read of the cache entry.
C1_Idempotent ==
    SecondRunDone =>
        /\ tasks[1].ok
        /\ tasks[1].ret = last.task.ret
        /\ ~Has(tasks[1].ev, "get")
        /\ Has(last.task.ev, "get") => tasks[1].ev = <<"cache_lookup", "cache_read">>

C1_Witness ==
    /\ SecondRunDone
    /\ Has(last.task.ev, "cache_write")
    /\ tasks[1].ok
    /\ tasks[1].ret = RemoteBytes(1)

\* The cache entry of t's reference was there before the running call began:
\* it is there, and no task of the call has opened it for writing.
EntryWasThere(t) ==
    /\ tasks[t].ev # <<>>
    /\ version.some
    /\ EntryOf(tasks[t].uri).exists
    /\ \A u \in Tasks : ~Has(tasks[u].ev, "cache_open")

\* C2: a read that finds a cache entry for its reference returns that
\* entry's bytes, whatever the literal path, the local store and the remote
\* hold, and neither parses the sidecar nor makes a remote request.
C2_CacheFirst ==
    \A t \in Tasks :
        EntryWasThere(t) =>
            /\ ~Has(tasks[t].ev, "literal_check")
            /\ ~Has(tasks[t].ev, "parse")
            /\ ~Has(tasks[t].ev, "get")
            /\ Done(t) => tasks[t].ok /\ tasks[t].ret = EntryOf(tasks[t].uri).data

C2_Witness ==
    /\ EntryWasThere(1)
    /\ Done(1)
    /\ tasks[1].ret = OldBytes(1)
    /\ Lookup(literal, tasks[1].uri).exists
    /\ ObjectOf(tasks[1].uri).exists
    /\ AnswerOf(tasks[1].uri) = Response(200, RemoteBytes(1))

\* Task t asked the remote, and the answer is 200 with a body whose length
\* is not the declared size.
RemoteSizeDiffers(t) ==
    /\ Has(tasks[t].ev, "get")
    /\ AnswerOf(tasks[t].uri).status = 200
    /\ Len(AnswerOf(tasks[t].uri).body) # SidecarOf(tasks[t].uri).size

\* C3: when the remote answers 200 with a body whose length is not the
\* declared size, read fails at its size assertion, resolve_file returns no
\* bytes, and the cache has no entry for the reference.
C3_RemoteIntegrity ==
    \A t \in Tasks :
        RemoteSizeDiffers(t) =>
            /\ ~Has(tasks[t].ev, "cache_open")
            /\ ~EntryOf(tasks[t].uri).exists
            /\ Done(t) =>
                /\ ~tasks[t].ok
                /\ tasks[t].readExc = "AssertionError"
                /\ tasks[t].ret = <<>>

C3_Witness ==
    \E t \in Tasks :
        /\ RemoteSizeDiffers(t)
        /\ Done(t)
        /\ tasks[t].readExc = "AssertionError"

\* C4: without a version tag a resolution skips the cache tier and goes on,
\* so a reference whose literal path exists is resolved.
C4_NoVersionFallsThrough ==
    \A t \in Tasks :
        (/\ Done(t)
         /\ ~version.some
         /\ tasks[t].uri # NoPath
         /\ dvcRepo = None
         /\ Lookup(literal, tasks[t].uri).exists)
        => tasks[t].ok /\ tasks[t].ret = Lookup(literal, tasks[t].uri).data

\* load_artifacts has returned or raised, and its tasks are still on hand.
BatchReturned == caller.pc = "idle" /\ last.kind = "batch"

\* C5: when the resolution of any extension fails, load_artifacts fails as
\* a whole: it returns no dictionary, not even one of the extensions that
\* were resolved.
C5_BatchAtomic ==
    /\ BatchReturned /\ (\E t \in Tasks : Done(t) /\ ~tasks[t].ok) =>
            ~last.ok /\ last.bundle = NoBundle
    /\ BatchReturned /\ last.ok => \A t \in Tasks : Done(t) /\ tasks[t].ok

C5_Witness ==
    /\ BatchReturned
    /\ ~last.ok
    /\ \E t \in Tasks : Done(t) /\ ~tasks[t].ok
    /\ \E t \in Tasks : Done(t) /\ tasks[t].ok

\* C6: the dictionary load_artifacts returns has exactly the three
\* extensions as keys, and each key's value is the bytes the resolution of
\* that extension returned, in whatever order the resolutions finished.
C6_BundleShape ==
    BatchReturned /\ last.ok =>
        /\ DOMAIN last.bundle = {EXT_ONNX, EXT_CALIB_YAML, EXT_ENF}
        /\ \A t \in Tasks :
               /\ tasks[t].src_name = last.src_name
               /\ last.bundle[tasks[t].extension] = tasks[t].ret
        /\ {tasks[t].extension : t \in Tasks} = DOMAIN last.bundle

C6_Witness ==
    /\ BatchReturned
    /\ last.ok
    /\ gather.order = <<3, 2, 1>>
    /\ last.bundle[EXT_ONNX] = RemoteBytes(1)
    /\ last.bundle[EXT_CALIB_YAML] = RemoteBytes(3)
    /\ last.bundle[EXT_ENF] = RemoteBytes(4)

\* Tiers 1 and 2 missed for task t, and the local store holds an object
\* under the hash its sidecar declares.
StoreHolds(t) ==
    /\ Len(tasks[t].ev) >= 3
    /\ tasks[t].ev[3] = "parse"
    /\ SidecarOf(tasks[t].uri).ok
    /\ dvcRoot.some
    /\ ObjectOf(tasks[t].uri).exists

\* C7: when tiers 1 and 2 miss and the local store holds a file under the
\* first two characters of the hash and the rest of it, the resolution makes
\* no remote request; it returns the file's bytes when their length is the
\* declared size, and fails at the size assertion when it is not.
C7_StoreHit ==
    \A t \in Tasks :
        StoreHolds(t) =>
            /\ ~Has(tasks[t].ev, "get")
            /\ Done(t) =>
                IF Len(ObjectOf(tasks[t].uri).data) = SidecarOf(tasks[t].uri).size
                THEN tasks[t].ok /\ tasks[t].ret = ObjectOf(tasks[t].uri).data
                ELSE ~tasks[t].ok /\ tasks[t].readExc = "AssertionError"
                     /\ tasks[t].ret = <<>>

C7_Witness ==
    \E t \in Tasks :
        /\ StoreHolds(t)
        /\ Done(t)
        /\ tasks[t].ok
        /\ tasks[t].ret = StoreBytes(1, "good")

\* C8: when the resolution reaches the remote and the answer's status is
\* not 200, read raises NotFoundInDVCRemote, no bytes are returned, and
\* nothing is written to the cache.
C8_RemoteMiss ==
    \A t \in Tasks :
        Has(tasks[t].ev, "get") /\ AnswerOf(tasks[t].uri).status # 200 =>
            /\ Done(t)
            /\ ~tasks[t].ok
            /\ tasks[t].readExc = "NotFoundInDVCRemote"
            /\ tasks[t].ret = <<>>
            /\ ~Has(tasks[t].ev, "cache_open")
            /\ ~EntryOf(tasks[t].uri).exists

C8_Witness ==
    \E t \in Tasks :
        /\ Has(tasks[t].ev, "get")
        /\ AnswerOf(tasks[t].uri).status = 204
        /\ tasks[t].readExc = "NotFoundInDVCRemote"

\* The error classes utils.py raises from its errors module.
TypedErrors == {"ArtifactNotFound", "NotFoundInDVCRemote", "VersionInfoNotFound"}

\* C9: every failure of resolve_file and of load_artifacts reaches the
\* caller as one of the typed errors.
C9_TypedErrorsOnly ==
    /\ \A t \in Tasks : Done(t) /\ ~tasks[t].ok => tasks[t].exc \in TypedErrors
    /\ last.kind # "none" /\ ~last.ok => last.exc \in TypedErrors

\* C10: under one version tag, two resolutions of different logical paths
\* use different cache paths.
C10_DisjointCachePaths ==
    (/\ caller.pc = "single"
     /\ last.kind = "single"
     /\ tasks[1].cpath # NoCachePath
     /\ last.task.cpath # NoCachePath
     /\ tasks[1].uri # last.task.uri)
    => tasks[1].cpath # last.task.cpath

\* Both coroutines of a pair have finished.
PairFinished == caller.pc = "pair" /\ \A t \in {1, 2} : Done(t)

\* No task has opened the entry at path p and not yet written it.
NoWriterAt(p) == \A t \in Tasks : ~(tasks[t].pc = "cache_write" /\ tasks[t].cpath = p)

\* C11: every entry of the cache that no resolution is writing has the
\* length its sidecar declares, and the entry a resolution wrote and returned
\* keeps the bytes written, whatever other resolutions do afterwards.
C11_CacheEntries ==
    /\ \A p \in DOMAIN cache :
           cache[p].exists /\ NoWriterAt(p) => Len(cache[p].data) = DeclaredSize
    /\ \A t \in Tasks :
           Done(t) /\ Has(tasks[t].ev, "cache_write") =>
               EntryOf(tasks[t].uri) = File(tasks[t].ret)

\* C17: when two resolutions of one reference run at once from an empty
\* cache, each that returns bytes returns as many as the sidecar declares,
\* and when both have finished after a fetch the entry holds the fetched body.
C17_NoPartialRead ==
    /\ \A t \in {1, 2} :
           caller.pc = "pair" /\ Done(t) /\ tasks[t].ok =>
               Len(tasks[t].ret) = DeclaredSize
    /\ PairFinished /\ (\E t \in {1, 2} : Has(tasks[t].ev, "cache_write")) =>
           EntryOf(tasks[1].uri) = File(AnswerOf(tasks[1].uri).body)

\* C12: without a version tag, resolve_file for the generated extension
\* raises VersionInfoNotFound before it derives a path from the tag and
\* before read tries any tier.
C12_VersionInfoNotFound ==
    \A t \in Tasks :
        Done(t) /\ ~version.some /\ tasks[t].extension = EXT_ENF =>
            /\ ~tasks[t].ok
            /\ tasks[t].exc = "VersionInfoNotFound"
            /\ tasks[t].uri = NoPath
            /\ tasks[t].ev = <<>>

IsPrefix(s, t) == Len(s) <= Len(t) /\ \A i \in DOMAIN s : s[i] = t[i]

\* The events of one read, from the first to the last, for each way it can
\* go: a hit in the cache, at the literal path, in the local store, and the
\* fetch with and without a configured store.
TierOrders ==
    { <<"cache_lookup", "cache_read">>,
      <<"cache_lookup", "literal_check", "literal_read">>,
      <<"cache_lookup", "literal_check", "parse", "store_lookup", "store_read">>,
      <<"cache_lookup", "literal_check", "parse", "store_lookup",
        "get", "body", "cache_open", "cache_write">>,
      <<"cache_lookup", "literal_check", "parse",
        "get", "body", "cache_open", "cache_write">> }

\* C13: the events of one read come in the order cache lookup, literal
\* check, sidecar parse, store lookup, GET; a step is taken only when every
\* tier before it has missed, and nothing follows the read of a hit.
C13_TierOrder ==
    \A t \in Tasks :
        LET ev == tasks[t].ev
            uri == tasks[t].uri
        IN  /\ \E o \in TierOrders : IsPrefix(ev, o)
            /\ Has(ev, "literal_check") =>
                   ~EntryOf(uri).exists \/ Has(ev, "cache_open")
            /\ Has(ev, "parse") => ~Lookup(literal, uri).exists
            /\ Has(ev, "store_lookup") => dvcRoot.some
            /\ Has(ev, "get") => ~(dvcRoot.some /\ ObjectOf(uri).exists)

C13_Witness ==
    \E t \in Tasks :
        /\ Done(t)
        /\ tasks[t].ev = <<"cache_lookup", "literal_check", "parse", "store_lookup",
                           "get", "body", "cache_open", "cache_write">>

\* C14: when load_artifacts has returned or raised, none of the resolutions
\* it started is still under way.
C14_JoinBeforeReturn == BatchReturned => \A t \in Tasks : ~Running(tasks[t])

\* Task t fetched: the remote answered 200 with a body of the declared size.
FetchedWhole(t) ==
    /\ Has(tasks[t].ev, "get")
    /\ Has(tasks[t].ev, "body")
    /\ AnswerOf(tasks[t].uri).status = 200
    /\ Len(AnswerOf(tasks[t].uri).body) = SidecarOf(tasks[t].uri).size

\* A step that changes the cache is the open or the write of a task that
\* fetched, and changes that task's entry only; a step in which a task ends
\* with a failure or with bytes of another tier changes nothing.
CacheFrameStep ==
    /\ cache' # cache =>
           \E t \in Tasks :
               /\ tasks[t].pc \in {"cache_open", "cache_write"}
               /\ tasks'[t].ev # tasks[t].ev
               /\ FetchedWhole(t)
               /\ \A p \in DOMAIN cache \cup DOMAIN cache' :
                      p # tasks[t].cpath => Lookup(cache', p) = Lookup(cache, p)
    /\ \A t \in Tasks :
           (/\ tasks[t].pc # "done"
            /\ tasks'[t].pc = "done"
            /\ ~tasks'[t].ok \/ ~Has(tasks'[t].ev, "cache_write"))
           => cache' = cache /\ ~Has(tasks'[t].ev, "cache_open")

\* C15: a resolution writes to the cache only after a GET answered 200 with
\* a body of the declared size; a resolution served by the cache, the
\* literal path or the local store, or one that fails, leaves the cache as
\* it was.
C15_CacheWriteFrame == [][CacheFrameStep]_vars

C15_Witness ==
    \E t \in Tasks :
        /\ Done(t)
        /\ Has(tasks[t].ev, "cache_write")
        /\ FetchedWhole(t)
        /\ EntryOf(tasks[t].uri) = File(AnswerOf(tasks[t].uri).body)

\* Tiers 1 and 2 missed for task t, and the local store has nothing for it:
\* no root is configured, or the root holds no file under the hash.
StoreMisses(t) ==
    /\ Len(tasks[t].ev) >= 3
    /\ tasks[t].ev[3] = "parse"
    /\ SidecarOf(tasks[t].uri).ok
    /\ ~dvcRoot.some \/ ~ObjectOf(tasks[t].uri).exists

\* C16: when tiers 1 and 2 miss and the local store has nothing, the
\* resolution goes on to the GET without reading the store, and ends as the
\* remote tier ends: NotFoundInDVCRemote on a status other than 200, the
\* size assertion on a body of another length, the body otherwise.
C16_StoreMissGoesRemote ==
    \A t \in Tasks :
        StoreMisses(t) =>
            /\ ~Has(tasks[t].ev, "store_read")
            /\ tasks[t].pc # "cancelled" =>
                   tasks[t].pc = "remote_get" \/ Has(tasks[t].ev, "get")
            /\ Done(t) =>
                   LET a == AnswerOf(tasks[t].uri)
                   IN  IF a.status # 200
                       THEN ~tasks[t].ok /\ tasks[t].readExc = "NotFoundInDVCRemote"
                       ELSE IF Len(a.body) # SidecarOf(tasks[t].uri).size
                       THEN ~tasks[t].ok /\ tasks[t].readExc = "AssertionError"
                       ELSE tasks[t].ok /\ tasks[t].ret = a.body

C16_Witness ==
    \E t \in Tasks :
        /\ StoreMisses(t)
        /\ dvcRoot.some
        /\ Has(tasks[t].ev, "store_lookup")
        /\ Done(t)
        /\ tasks[t].ok
        /\ tasks[t].ret = AnswerOf(tasks[t].uri).body

Count(ev, x) == Cardinality({i \in DOMAIN ev : ev[i] = x})

\* C19: one resolution takes each step at most once, the GET included, and
\* after a refusal of the remote or a body of the wrong length it has
\* failed, with that step as its last.
C19_NoRetry ==
    \A t \in Tasks :
        LET ev == tasks[t].ev
        IN  /\ \A i, j \in DOMAIN ev : ev[i] = ev[j] => i = j
            /\ Count(ev, "get") <= 1
            /\ Has(ev, "get") /\ AnswerOf(tasks[t].uri).status # 200 =>
                   Done(t) /\ ~tasks[t].ok /\ ev[Len(ev)] = "get"
            /\ Has(ev, "body") /\ RemoteSizeDiffers(t) =>
                   Done(t) /\ ~tasks[t].ok /\ ev[Len(ev)] = "body"

C19_Witness ==
    \E t \in Tasks :
        /\ Done(t)
        /\ ~tasks[t].ok
        /\ AnswerOf(tasks[t].uri).status = 404
        /\ tasks[t].ev = <<"cache_lookup", "literal_check", "parse", "store_lookup", "get">>

\* The object of the store under root for the hash uri's sidecar declares.
ObjectAt(root, uri) ==
    Lookup(store, [root |-> root, directory |-> HashDir(uri), filename |-> HashFile(uri)])

\* C20: with DVC_REPO set, a resolution whose literal path exists returns
\* the file there, and one that misses tiers 1 and 2 returns the object of
\* the declared size found under the override root.
C20_RepoOverride ==
    \A t \in Tasks :
        Done(t) /\ dvcRepo.some /\ tasks[t].uri # NoPath /\ ~EntryOf(tasks[t].uri).exists =>
            LET uri == tasks[t].uri
                lit == Lookup(literal, uri)
                obj == ObjectAt(dvcRepo.val, uri)
            IN  /\ lit.exists => tasks[t].ok /\ tasks[t].ret = lit.data
                /\ (/\ ~lit.exists
                    /\ SidecarOf(uri).ok
                    /\ obj.exists
                    /\ Len(obj.data) = SidecarOf(uri).size)
                   => tasks[t].ok /\ tasks[t].ret = obj.data

\* The directories from the walk's path up to the root that hold a marker.
Marked == {d \in UpTo(walk.path.parts) : Append(d, ".dvc") \in walk.dirs}

\* C18: find_dvc_cache_directory returns <d>/.dvc/cache for the nearest
\* directory d, among the path and the directories above it up to and
\* including the root, that holds a .dvc directory, and None exactly when
\* there is none.
C18_StoreDiscovery ==
    walk.pc = "returned" =>
        IF Marked = {}
        THEN walk.result = NoDir
        ELSE LET d == CHOOSE d \in Marked : \A e \in Marked : Len(e) <= Len(d)
             IN  walk.result = Dir(d \o <<".dvc", "cache">>)

====
